---- MODULE Spec2Model ----
(***************************************************************************)
(* Model of the CSQLite bundle store (Sources/CSQLite/csqlite.c): a thin   *)
(* C layer over one SQLite connection holding two relations, bundles and   *)
(* bundle_metadata.  Every public function is one action; the SQLite       *)
(* engine is modelled by what the statements in csqlite.c ask of it under  *)
(* the schema the file declares.                                           *)
(***************************************************************************)
EXTENDS Integers, Sequences, FiniteSets, TLC

VARIABLES
    handle,           \* the caller's CSQLiteDB*: "none" (NULL), "open", "closed" (dangling)
    aborted,          \* the process was killed by the runtime after undefined behaviour
    disk,             \* committed content of the database file
    bundles,          \* relation bundles as the open connection sees it
    bundle_metadata,  \* relation bundle_metadata as the open connection sees it
    autocommit,       \* sqlite3_get_autocommit: FALSE while a transaction is open
    foreign_keys,     \* PRAGMA foreign_keys of the connection
    malloc0_null,     \* whether this platform's malloc(0) returns NULL
    stored,           \* history: per id, the payload and metadata last stored with Ok
    last              \* the last call: arguments, injected fault, result, outputs

vars == <<handle, aborted, disk, bundles, bundle_metadata, autocommit,
          foreign_keys, malloc0_null, stored, last>>

(***************************************************************************)
(* Bounds of the model.  Integer widths are scaled: BitsInt64 stands for   *)
(* the 64 bits of sqlite3_int64 / uint64_t and BitsInt for the 32 bits of  *)
(* int, so that the values around the sign bit are inside the model.       *)
(***************************************************************************)
BitsInt64 == 16
BitsInt == 8
MaxOrphans == 1

(***************************************************************************)
(* C values.                                                               *)
(***************************************************************************)
NULL == [tag |-> "null"]
Ptr(x) == [tag |-> "ptr", at |-> x]
Unwritten == [tag |-> "unwritten"]
Written(x) == [tag |-> "written", at |-> x]

CSQLITE_OK == 0
CSQLITE_ERROR == 1
CSQLITE_NOT_FOUND == 2
CSQLITE_CONSTRAINT == 3

INT_MAX == 2147483647

\* (int)bundle_size at the blob bind: values above INT_MAX wrap.
CastInt(n) == IF n <= INT_MAX THEN n ELSE ((n - INT_MAX) - INT_MAX) - 2

\* uint64_t -> sqlite3_int64 at sqlite3_bind_int64 (two's complement).
CastInt64(u) == IF u >= 2^(BitsInt64 - 1) THEN u - 2^BitsInt64 ELSE u

\* Mutant: the column value is kept as the signed integer it is read as.
CastUInt64_Signed(v) == v

\* sqlite3_int64 -> uint64_t at the assignment of sqlite3_column_int64.
CastUInt64(v) == IF v < 0 THEN v + 2^BitsInt64 ELSE v

\* sqlite3_column_int: the low bits of the stored 64-bit integer, as an int.
ColumnInt(v) == ((v + 2^(BitsInt - 1)) % 2^BitsInt) - 2^(BitsInt - 1)

(***************************************************************************)
(* SQL values and the binds / column reads csqlite.c uses.                 *)
(***************************************************************************)
SqlNull == [type |-> "NULL"]
SqlText(s) == [type |-> "TEXT", v |-> s]
SqlBlob(b) == [type |-> "BLOB", v |-> b]
SqlInt(n) == [type |-> "INTEGER", v |-> n]

\* sqlite3_bind_text(stmt, k, p, -1, SQLITE_STATIC): a NULL pointer binds SQL NULL.
sqlite3_bind_text(p) == IF p = NULL THEN SqlNull ELSE SqlText(p.at)

\* sqlite3_bind_blob(stmt, 2, p, n, SQLITE_STATIC): the first n bytes at p.
sqlite3_bind_blob(p, n) ==
    IF p = NULL THEN SqlNull ELSE SqlBlob(SubSeq(p.at, 1, n))

sqlite3_bind_int64(v) == SqlInt(v)
sqlite3_bind_int(v) == SqlInt(v)

\* sqlite3_column_text: NULL for SQL NULL, else the text.
sqlite3_column_text(c) == IF c.type = "NULL" THEN NULL ELSE Ptr(c.v)

\* sqlite3_column_bytes of a blob column.
sqlite3_column_bytes(c) == IF c.type = "NULL" THEN 0 ELSE Len(c.v)

\* sqlite3_column_blob: NULL for SQL NULL and for a zero-length blob.
sqlite3_column_blob(c) ==
    IF c.type = "NULL" \/ Len(c.v) = 0 THEN NULL ELSE Ptr(c.v)

sqlite3_column_int64(c) == IF c.type = "NULL" THEN 0 ELSE c.v

\* The SQL comparison id = ?: never true when either side is NULL.
SqlEq(a, b) == a.type # "NULL" /\ b.type # "NULL" /\ a = b

(***************************************************************************)
(* The schema of CREATE_TABLES_SQL: what each statement does to the rows.  *)
(***************************************************************************)
HasId(rows, id) == \E k \in 1..Len(rows) : SqlEq(rows[k].id, id)

RowOf(rows, id) == rows[CHOOSE k \in 1..Len(rows) : SqlEq(rows[k].id, id)]

\* bundles: id TEXT PRIMARY KEY, data BLOB NOT NULL.
BundlesAccepts(b, row) ==
    /\ row.data.type # "NULL"
    /\ ~HasId(b, row.id)

\* bundle_metadata: the NOT NULL columns, the primary key, and the foreign key
\* (a NULL id passes both the primary key and the foreign key).
MetadataNotNull(row) ==
    /\ row.source.type # "NULL"
    /\ row.destination.type # "NULL"

ForeignKeyHolds(b, row, fk) ==
    fk => (row.id.type = "NULL" \/ HasId(b, row.id))

MetadataAccepts(b, m, row, fk) ==
    /\ MetadataNotNull(row)
    /\ ~HasId(m, row.id)
    /\ ForeignKeyHolds(b, row, fk)

\* Mutant: the DELETE has no WHERE clause.
DeleteBundleRows_All(b, id) == <<>>

\* DELETE FROM bundles WHERE id = ?
DeleteBundleRows(b, id) == SelectSeq(b, LAMBDA r : ~SqlEq(r.id, id))

\* ON DELETE CASCADE: the metadata rows referencing a deleted bundle go with it.
CascadeDelete(m, id, fk) ==
    IF fk THEN SelectSeq(m, LAMBDA r : ~SqlEq(r.id, id)) ELSE m

\* Mutant: the SET list leaves out the size column.
UpdatedRow_WithoutSize(r, new) ==
    [r EXCEPT !.source = new.source,
              !.destination = new.destination,
              !.creation_time = new.creation_time,
              !.constraints = new.constraints]

\* UPDATE bundle_metadata SET source, destination, creation_time, size,
\* constraints WHERE id = ?
UpdatedRow(r, new) ==
    [r EXCEPT !.source = new.source,
              !.destination = new.destination,
              !.creation_time = new.creation_time,
              !.size = new.size,
              !.constraints = new.constraints]

UpdateMetadataRows(m, new) ==
    [k \in 1..Len(m) |-> IF SqlEq(m[k].id, new.id) THEN UpdatedRow(m[k], new) ELSE m[k]]

EmptyDisk == [schema |-> FALSE, bundles |-> <<>>, bundle_metadata |-> <<>>]

(***************************************************************************)
(* The connection: what a call reads and what it leaves behind.            *)
(***************************************************************************)
\* changes is sqlite3_changes: csqlite.c reads it only right after the statement
\* that sets it, so it is carried within a call and not between calls.
Conn ==
    [bundles |-> bundles, bundle_metadata |-> bundle_metadata,
     autocommit |-> autocommit, foreign_keys |-> foreign_keys,
     changes |-> 0, disk |-> disk]

\* A statement that completed outside a transaction is committed at once.
AutoCommit(c) ==
    IF c.autocommit
    THEN [c EXCEPT !.disk.bundles = c.bundles,
                   !.disk.bundle_metadata = c.bundle_metadata]
    ELSE c

\* sqlite3_exec "BEGIN TRANSACTION;": refused inside a transaction.
ExecBegin(c, fault) ==
    IF fault = "begin" \/ ~c.autocommit
    THEN [rc |-> "SQLITE_ERROR", conn |-> c]
    ELSE [rc |-> "SQLITE_OK", conn |-> [c EXCEPT !.autocommit = FALSE]]

\* sqlite3_exec "ROLLBACK;": the connection is back at the committed content.
ExecRollback(c) ==
    [c EXCEPT !.bundles = c.disk.bundles,
              !.bundle_metadata = c.disk.bundle_metadata,
              !.autocommit = TRUE]

\* sqlite3_exec "COMMIT;": on SQLITE_BUSY the transaction stays open with its
\* changes; on an I/O failure the engine rolls the transaction back itself.
ExecCommit(c, fault) ==
    CASE fault = "commit_busy" -> [rc |-> "SQLITE_BUSY", conn |-> c]
      [] fault = "commit_io" -> [rc |-> "SQLITE_IOERR", conn |-> ExecRollback(c)]
      [] OTHER -> [rc |-> "SQLITE_OK",
                   conn |-> [c EXCEPT !.disk.bundles = c.bundles,
                                      !.disk.bundle_metadata = c.bundle_metadata,
                                      !.autocommit = TRUE]]

\* sqlite3_step of INSERT INTO bundles (id, data) VALUES (?, ?)
StepInsertBundle(c, row, failed) ==
    IF failed THEN [rc |-> "SQLITE_IOERR", conn |-> c]
    ELSE IF ~BundlesAccepts(c.bundles, row) THEN [rc |-> "SQLITE_CONSTRAINT", conn |-> c]
    ELSE [rc |-> "SQLITE_DONE",
          conn |-> AutoCommit([c EXCEPT !.bundles = Append(c.bundles, row),
                                        !.changes = 1])]

\* sqlite3_step of INSERT INTO bundle_metadata (...) VALUES (?, ?, ?, ?, ?, ?)
StepInsertMetadata(c, row, failed) ==
    IF failed THEN [rc |-> "SQLITE_IOERR", conn |-> c]
    ELSE IF ~MetadataAccepts(c.bundles, c.bundle_metadata, row, c.foreign_keys)
    THEN [rc |-> "SQLITE_CONSTRAINT", conn |-> c]
    ELSE [rc |-> "SQLITE_DONE",
          conn |-> AutoCommit([c EXCEPT !.bundle_metadata = Append(c.bundle_metadata, row),
                                        !.changes = 1])]

\* sqlite3_step of UPDATE bundle_metadata SET ... WHERE id = ?; the NOT NULL
\* columns are checked on the rows the statement updates.
StepUpdateMetadata(c, new, failed) ==
    IF failed THEN [rc |-> "SQLITE_IOERR", conn |-> c]
    ELSE IF HasId(c.bundle_metadata, new.id) /\ ~MetadataNotNull(new)
    THEN [rc |-> "SQLITE_CONSTRAINT", conn |-> c]
    ELSE [rc |-> "SQLITE_DONE",
          conn |-> AutoCommit(
              [c EXCEPT !.bundle_metadata = UpdateMetadataRows(c.bundle_metadata, new),
                        !.changes = IF HasId(c.bundle_metadata, new.id) THEN 1 ELSE 0])]

\* sqlite3_step of DELETE FROM bundles WHERE id = ?; sqlite3_changes counts the
\* bundles rows, not the rows the cascade removes.
StepDeleteBundle(c, id, failed) ==
    IF failed THEN [rc |-> "SQLITE_IOERR", conn |-> c]
    ELSE [rc |-> "SQLITE_DONE",
          conn |-> AutoCommit(
              [c EXCEPT !.bundles = DeleteBundleRows(c.bundles, id),
                        !.bundle_metadata =
                            IF HasId(c.bundles, id)
                            THEN CascadeDelete(c.bundle_metadata, id, c.foreign_keys)
                            ELSE c.bundle_metadata,
                        !.changes = IF HasId(c.bundles, id) THEN 1 ELSE 0])]

\* sqlite3_step of a SELECT ... WHERE id = ?
StepSelect(rows, id, failed) ==
    IF failed THEN "SQLITE_IOERR"
    ELSE IF HasId(rows, id) THEN "SQLITE_ROW" ELSE "SQLITE_DONE"

(***************************************************************************)
(* The allocator.                                                          *)
(***************************************************************************)
\* malloc(n): NULL on failure; for n = 0 either NULL or a unique pointer.
Malloc(n, failed, zero_null) ==
    IF failed \/ (n = 0 /\ zero_null) THEN NULL ELSE Ptr(<<>>)

\* memcpy(dst, src, n): the n bytes at src.
Memcpy(src, n) == IF n = 0 THEN <<>> ELSE SubSeq(src.at, 1, n)

\* csqlite_strdup
csqlite_strdup(str, failed) ==
    IF str = NULL THEN NULL
    ELSE IF Malloc(Len(str.at) + 1, failed, FALSE) = NULL THEN NULL
    ELSE Ptr(str.at)

(***************************************************************************)
(* The public functions.  Each takes the connection c and the arguments    *)
(* and gives the result code, the outputs written, whether the engine was  *)
(* called at all, and the connection it leaves.                            *)
(***************************************************************************)
Ret(res, out, backend, c) == [res |-> res, out |-> out, backend |-> backend, conn |-> c]

NoOut == [tag |-> "none"]

\* The row bound from a CSQLiteBundleMetadata at the metadata insert / update.
MetadataRow(md) ==
    [id |-> sqlite3_bind_text(md.id),
     source |-> sqlite3_bind_text(md.source),
     destination |-> sqlite3_bind_text(md.destination),
     creation_time |-> sqlite3_bind_int64(CastInt64(md.creation_time)),
     size |-> sqlite3_bind_int64(CastInt64(md.size)),
     constraints |-> sqlite3_bind_int(md.constraints)]

BundleRow(bundle_id, bundle_data, bundle_size) ==
    [id |-> sqlite3_bind_text(bundle_id),
     data |-> sqlite3_bind_blob(bundle_data, CastInt(bundle_size))]

\* return (rc == SQLITE_CONSTRAINT) ? CSQLITE_CONSTRAINT : CSQLITE_ERROR;
StoreBundleStepResult(rc) ==
    IF rc = "SQLITE_CONSTRAINT" THEN CSQLITE_CONSTRAINT ELSE CSQLITE_ERROR

\* Mutant: the metadata insert maps its result code as the payload insert does.
StoreMetadataStepResult_LikeBundle(rc) ==
    IF rc = "SQLITE_CONSTRAINT" THEN CSQLITE_CONSTRAINT ELSE CSQLITE_ERROR

\* the metadata insert failed: return CSQLITE_ERROR;
StoreMetadataStepResult(rc) == CSQLITE_ERROR

\* return (rc == SQLITE_OK) ? CSQLITE_OK : CSQLITE_ERROR;
StoreCommitResult(rc) == IF rc = "SQLITE_OK" THEN CSQLITE_OK ELSE CSQLITE_ERROR

StoreArgsInvalid(db, bundle_id, bundle_data, metadata) ==
    db = NULL \/ bundle_id = NULL \/ bundle_data = NULL \/ metadata = NULL

csqlite_store_bundle(c, db, bundle_id, bundle_data, bundle_size, metadata, fault) ==
    IF StoreArgsInvalid(db, bundle_id, bundle_data, metadata)
    THEN Ret(CSQLITE_ERROR, NoOut, FALSE, c)
    ELSE
    LET bg == ExecBegin(c, fault) IN
    IF bg.rc # "SQLITE_OK" THEN Ret(CSQLITE_ERROR, NoOut, TRUE, bg.conn)
    ELSE IF fault = "prepare_bundle"
    THEN Ret(CSQLITE_ERROR, NoOut, TRUE, ExecRollback(bg.conn))
    ELSE
    LET s1 == StepInsertBundle(bg.conn, BundleRow(bundle_id, bundle_data, bundle_size),
                               fault = "step_bundle") IN
    IF s1.rc # "SQLITE_DONE"
    THEN Ret(StoreBundleStepResult(s1.rc), NoOut, TRUE, ExecRollback(s1.conn))
    ELSE IF fault = "prepare_metadata"
    THEN Ret(CSQLITE_ERROR, NoOut, TRUE, ExecRollback(s1.conn))
    ELSE
    LET s2 == StepInsertMetadata(s1.conn, MetadataRow(metadata.at),
                                 fault = "step_metadata") IN
    IF s2.rc # "SQLITE_DONE"
    THEN Ret(StoreMetadataStepResult(s2.rc), NoOut, TRUE, ExecRollback(s2.conn))
    ELSE
    LET cm == ExecCommit(s2.conn, fault) IN
    Ret(StoreCommitResult(cm.rc), NoOut, TRUE, cm.conn)

\* return (rc == SQLITE_DONE) ? CSQLITE_NOT_FOUND : CSQLITE_ERROR;
LookupMissResult(rc) == IF rc = "SQLITE_DONE" THEN CSQLITE_NOT_FOUND ELSE CSQLITE_ERROR

GetBundleOut(data, size) == [data |-> data, size |-> size]

csqlite_get_bundle(c, db, bundle_id, out_null, fault, zero_null) ==
    IF db = NULL \/ bundle_id = NULL \/ out_null
    THEN Ret(CSQLITE_ERROR, GetBundleOut(Unwritten, Unwritten), FALSE, c)
    ELSE IF fault = "prepare"
    THEN Ret(CSQLITE_ERROR, GetBundleOut(Unwritten, Unwritten), TRUE, c)
    ELSE
    LET key == sqlite3_bind_text(bundle_id)
        rc == StepSelect(c.bundles, key, fault = "step")
    IN
    IF rc = "SQLITE_ROW"
    THEN LET col == RowOf(c.bundles, key).data
             blob == sqlite3_column_blob(col)
             blob_size == sqlite3_column_bytes(col)
             buf == Malloc(blob_size, fault = "malloc", zero_null)
         IN IF buf # NULL
            THEN Ret(CSQLITE_OK,
                     GetBundleOut(Written(Ptr(Memcpy(blob, blob_size))), Written(blob_size)),
                     TRUE, c)
            ELSE Ret(LookupMissResult(rc), GetBundleOut(Written(NULL), Unwritten), TRUE, c)
    ELSE Ret(LookupMissResult(rc), GetBundleOut(Unwritten, Unwritten), TRUE, c)

\* The record csqlite_get_metadata and csqlite_get_all_metadata fill from a row.
MetadataOfRow(r, fault) ==
    [id |-> csqlite_strdup(sqlite3_column_text(r.id), fault = "strdup_id"),
     source |-> csqlite_strdup(sqlite3_column_text(r.source), fault = "strdup_source"),
     destination |-> csqlite_strdup(sqlite3_column_text(r.destination),
                                    fault = "strdup_destination"),
     creation_time |-> CastUInt64(sqlite3_column_int64(r.creation_time)),
     size |-> CastUInt64(sqlite3_column_int64(r.size)),
     constraints |-> ColumnInt(sqlite3_column_int64(r.constraints))]

csqlite_get_metadata(c, db, bundle_id, metadata, fault) ==
    IF db = NULL \/ bundle_id = NULL \/ metadata = NULL
    THEN Ret(CSQLITE_ERROR, Unwritten, FALSE, c)
    ELSE IF fault = "prepare" THEN Ret(CSQLITE_ERROR, Unwritten, TRUE, c)
    ELSE
    LET key == sqlite3_bind_text(bundle_id)
        rc == StepSelect(c.bundle_metadata, key, fault = "step")
    IN
    IF rc = "SQLITE_ROW"
    THEN Ret(CSQLITE_OK, Written(MetadataOfRow(RowOf(c.bundle_metadata, key), fault)), TRUE, c)
    ELSE Ret(LookupMissResult(rc), Unwritten, TRUE, c)

\* Mutant: the affected-row count is not looked at.
ChangesResult_AlwaysOk(n) == CSQLITE_OK

\* return (sqlite3_changes(db->db) > 0) ? CSQLITE_OK : CSQLITE_NOT_FOUND;
ChangesResult(n) == IF n > 0 THEN CSQLITE_OK ELSE CSQLITE_NOT_FOUND

csqlite_update_metadata(c, db, metadata, fault) ==
    IF db = NULL \/ metadata = NULL \/ metadata.at.id = NULL
    THEN Ret(CSQLITE_ERROR, NoOut, FALSE, c)
    ELSE IF fault = "prepare" THEN Ret(CSQLITE_ERROR, NoOut, TRUE, c)
    ELSE
    LET s == StepUpdateMetadata(c, MetadataRow(metadata.at), fault = "step") IN
    IF s.rc # "SQLITE_DONE" THEN Ret(CSQLITE_ERROR, NoOut, TRUE, s.conn)
    ELSE Ret(ChangesResult(s.conn.changes), NoOut, TRUE, s.conn)

csqlite_remove_bundle(c, db, bundle_id, fault) ==
    IF db = NULL \/ bundle_id = NULL
    THEN Ret(CSQLITE_ERROR, NoOut, FALSE, c)
    ELSE IF fault = "prepare" THEN Ret(CSQLITE_ERROR, NoOut, TRUE, c)
    ELSE
    LET s == StepDeleteBundle(c, sqlite3_bind_text(bundle_id), fault = "step") IN
    IF s.rc # "SQLITE_DONE" THEN Ret(CSQLITE_ERROR, NoOut, TRUE, s.conn)
    ELSE Ret(ChangesResult(s.conn.changes), NoOut, TRUE, s.conn)


\* csqlite_has_bundle: *exists = (rc == SQLITE_ROW); the result is always Ok
\* once the statement is prepared.
csqlite_has_bundle(c, db, bundle_id, exists, fault) ==
    IF db = NULL \/ bundle_id = NULL \/ exists = NULL
    THEN Ret(CSQLITE_ERROR, Unwritten, FALSE, c)
    ELSE IF fault = "prepare" THEN Ret(CSQLITE_ERROR, Unwritten, TRUE, c)
    ELSE Ret(CSQLITE_OK,
             Written(StepSelect(c.bundles, sqlite3_bind_text(bundle_id), fault = "step")
                     = "SQLITE_ROW"),
             TRUE, c)

\* csqlite_count_bundles returns a count, not a CSQLiteResult.
NoResult == CSQLITE_OK - 1

csqlite_count_bundles(c, db, fault) ==
    IF db = NULL THEN Ret(NoResult, Written(0), FALSE, c)
    ELSE IF fault \in {"prepare", "step"} THEN Ret(NoResult, Written(0), TRUE, c)
    ELSE Ret(NoResult, Written(CastUInt64(Len(c.bundles))), TRUE, c)

ListOut(items, count) == [items |-> items, count |-> count]

\* The two passes of the list functions over `rows`: n rows are counted, the
\* array is allocated, the statement is reset and at most n rows are copied.
\* A step that fails ends the loop it is in.
CountedRows(rows, fault) == IF fault = "step_count" THEN 0 ELSE Len(rows)

FetchedRows(rows, n, fault) == IF fault = "step_fetch" THEN 0 ELSE IF Len(rows) < n THEN Len(rows) ELSE n

csqlite_get_all_ids(c, db, out_null, fault) ==
    IF db = NULL \/ out_null
    THEN Ret(CSQLITE_ERROR, ListOut(Unwritten, Unwritten), FALSE, c)
    ELSE IF fault = "prepare"
    THEN Ret(CSQLITE_ERROR, ListOut(Unwritten, Unwritten), TRUE, c)
    ELSE
    LET n == CountedRows(c.bundles, fault) IN
    IF n = 0 THEN Ret(CSQLITE_OK, ListOut(Written(NULL), Written(0)), TRUE, c)
    ELSE IF Malloc(n, fault = "malloc", FALSE) = NULL
    THEN Ret(CSQLITE_ERROR, ListOut(Written(NULL), Unwritten), TRUE, c)
    ELSE
    LET i == FetchedRows(c.bundles, n, fault)
        ids == [k \in 1..i |->
                  csqlite_strdup(sqlite3_column_text(c.bundles[k].id), fault = "strdup_id")]
    IN Ret(CSQLITE_OK, ListOut(Written(Ptr(ids)), Written(i)), TRUE, c)

csqlite_get_all_metadata(c, db, out_null, fault) ==
    IF db = NULL \/ out_null
    THEN Ret(CSQLITE_ERROR, ListOut(Unwritten, Unwritten), FALSE, c)
    ELSE IF fault = "prepare"
    THEN Ret(CSQLITE_ERROR, ListOut(Unwritten, Unwritten), TRUE, c)
    ELSE
    LET n == CountedRows(c.bundle_metadata, fault) IN
    IF n = 0 THEN Ret(CSQLITE_OK, ListOut(Written(NULL), Written(0)), TRUE, c)
    ELSE IF Malloc(n, fault = "malloc", FALSE) = NULL
    THEN Ret(CSQLITE_ERROR, ListOut(Written(NULL), Unwritten), TRUE, c)
    ELSE
    LET i == FetchedRows(c.bundle_metadata, n, fault)
        recs == [k \in 1..i |-> MetadataOfRow(c.bundle_metadata[k], fault)]
    IN Ret(CSQLITE_OK, ListOut(Written(Ptr(recs)), Written(i)), TRUE, c)

\* csqlite_open: allocate the handle, sqlite3_open, PRAGMA foreign_keys = ON,
\* CREATE TABLE IF NOT EXISTS for both relations.
ClosedConn ==
    [bundles |-> <<>>, bundle_metadata |-> <<>>, autocommit |-> TRUE,
     foreign_keys |-> FALSE, changes |-> 0, disk |-> disk]

\* Mutant: the PRAGMA is not issued, so the connection keeps SQLite's default.
PragmaForeignKeys_Off == FALSE

\* sqlite3_exec "PRAGMA foreign_keys = ON;"
PragmaForeignKeys == TRUE

CreateTables(d) == [d EXCEPT !.schema = TRUE]

csqlite_open(c, fault) ==
    IF fault \in {"malloc", "sqlite3_open", "create_tables"}
    THEN Ret(CSQLITE_ERROR, NULL, fault # "malloc", c)
    ELSE Ret(CSQLITE_OK, Ptr("db"), TRUE,
             [bundles |-> c.disk.bundles, bundle_metadata |-> c.disk.bundle_metadata,
              autocommit |-> TRUE, foreign_keys |-> PragmaForeignKeys, changes |-> 0,
              disk |-> CreateTables(c.disk)])

\* sqlite3_close: an open transaction is rolled back, the connection is gone.
sqlite3_close(c) == [ClosedConn EXCEPT !.disk = c.disk]

(***************************************************************************)
(* Inputs.  Identifiers include the empty string; every pointer argument   *)
(* may be NULL.  Faults name the engine or allocator call that fails in    *)
(* the call; "none" is a call in which nothing fails.                      *)
(***************************************************************************)
TextIds == {"", "a"}
IdPtrs == {NULL} \cup {Ptr(i) : i \in TextIds}
Payloads == {<<>>, <<1, 2, 3>>}

MetaA(ip) ==
    [id |-> ip, source |-> Ptr("A"), destination |-> Ptr("B"),
     creation_time |-> 1000, size |-> 3, constraints |-> 0]

MetaB(ip) ==
    [id |-> ip, source |-> Ptr("C"), destination |-> Ptr("D"),
     creation_time |-> 2^(BitsInt64 - 1), size |-> 2^BitsInt64 - 1,
     constraints |-> 0 - 2^(BitsInt - 1)]

MetaNoSource(ip) == [MetaA(ip) EXCEPT !.source = NULL]
MetaNoDestination(ip) == [MetaB(ip) EXCEPT !.destination = NULL]

Metas ==
    UNION {{MetaA(Ptr(i)), MetaB(Ptr(i)), MetaNoSource(Ptr(i)), MetaNoDestination(Ptr(i))} :
           i \in TextIds}
    \cup {MetaA(NULL)}

DB == Ptr("db")
OUT == Ptr("out")

StoreFaults == {"begin", "prepare_bundle", "step_bundle", "prepare_metadata",
                "step_metadata", "commit_busy", "commit_io"}
GetBundleFaults == {"prepare", "step", "malloc"}
GetMetadataFaults == {"prepare", "step", "strdup_id", "strdup_source", "strdup_destination"}
StatementFaults == {"prepare", "step"}
IdListFaults == {"prepare", "step_count", "malloc", "step_fetch", "strdup_id"}
MetadataListFaults == IdListFaults \cup {"strdup_source", "strdup_destination"}
OpenFaults == {"none", "malloc", "sqlite3_open", "create_tables"}

\* <<db, bundle_id, bundle_data, metadata, fault>>
StoreCalls ==
    {<<DB, Ptr(i), Ptr(p), Ptr(m), "none">> : i \in TextIds, p \in Payloads, m \in Metas}
    \cup {<<DB, Ptr(i), Ptr(<<1, 2, 3>>), Ptr(MetaA(Ptr(i))), f>> : i \in TextIds, f \in StoreFaults}
    \cup {<<NULL, Ptr("a"), Ptr(<<1, 2, 3>>), Ptr(MetaA(Ptr("a"))), "none">>,
          <<DB, NULL, Ptr(<<1, 2, 3>>), Ptr(MetaA(Ptr("a"))), "none">>,
          <<DB, Ptr("a"), NULL, Ptr(MetaA(Ptr("a"))), "none">>,
          <<DB, Ptr("a"), Ptr(<<1, 2, 3>>), NULL, "none">>}

\* <<db, bundle_id, output pointer, fault>>
LookupCalls(faults) ==
    {<<DB, Ptr(i), OUT, f>> : i \in TextIds, f \in faults \cup {"none"}}
    \cup {<<NULL, Ptr("a"), OUT, "none">>, <<DB, NULL, OUT, "none">>,
          <<DB, Ptr("a"), NULL, "none">>}

\* <<db, metadata, fault>>
UpdateCalls ==
    {<<DB, Ptr(m), "none">> : m \in Metas}
    \cup {<<DB, Ptr(MetaB(Ptr(i))), f>> : i \in TextIds, f \in StatementFaults}
    \cup {<<NULL, Ptr(MetaB(Ptr("a"))), "none">>, <<DB, NULL, "none">>}

\* <<db, bundle_id, fault>>
RemoveCalls ==
    {<<DB, Ptr(i), f>> : i \in TextIds, f \in StatementFaults \cup {"none"}}
    \cup {<<NULL, Ptr("a"), "none">>, <<DB, NULL, "none">>}

\* <<db, fault>>
CountCalls == {<<DB, f>> : f \in StatementFaults \cup {"none"}} \cup {<<NULL, "none">>}

\* <<db, output pointers, fault>>
ListCalls(faults) ==
    {<<DB, OUT, f>> : f \in faults \cup {"none"}}
    \cup {<<NULL, OUT, "none">>, <<DB, NULL, "none">>}

\* A call can pass the handle only while the caller holds an open one.
DbArg(db) == db = NULL \/ handle = "open"

NullIdRows(m) == Len(SelectSeq(m, LAMBDA r : r.id.type = "NULL"))

(***************************************************************************)
(* The calls.  last is the call that has just returned; the caller is Idle *)
(* between calls.                                                          *)
(***************************************************************************)
Pre ==
    [handle |-> handle, bundles |-> bundles, bundle_metadata |-> bundle_metadata,
     autocommit |-> autocommit, disk |-> disk, stored |-> stored]

Returned(op, args, fault, r) ==
    last' = [op |-> op, args |-> args, fault |-> fault, res |-> r.res, out |-> r.out,
             backend |-> r.backend, pre |-> Pre]

Leaves(c) ==
    /\ bundles' = c.bundles
    /\ bundle_metadata' = c.bundle_metadata
    /\ autocommit' = c.autocommit
    /\ foreign_keys' = c.foreign_keys
    /\ disk' = c.disk

NoneStored == [i \in TextIds |-> NULL]

Idle == [op |-> "none"]

Init ==
    /\ handle = "none"
    /\ aborted = FALSE
    /\ disk = EmptyDisk
    /\ bundles = <<>>
    /\ bundle_metadata = <<>>
    /\ autocommit = TRUE
    /\ foreign_keys = FALSE
    /\ malloc0_null \in BOOLEAN
    /\ stored = NoneStored
    /\ last = Idle

Open ==
    /\ ~aborted
    /\ last = Idle
    /\ handle # "open"
    /\ \E fault \in OpenFaults :
         LET r == csqlite_open(Conn, fault) IN
         /\ handle' = IF r.res = CSQLITE_OK THEN "open" ELSE "none"
         /\ Leaves(r.conn)
         /\ Returned("open", NoOut, fault, r)
    /\ UNCHANGED <<aborted, malloc0_null, stored>>

\* csqlite_close(NULL) does nothing; csqlite_close of the open handle closes the
\* connection and frees the handle.
CloseOpenOrNull ==
    /\ ~aborted
    /\ last = Idle
    /\ \E db \in {NULL, DB} :
         /\ DbArg(db)
         /\ handle' = IF db = NULL THEN handle ELSE "closed"
         /\ Leaves(IF db = NULL THEN Conn ELSE sqlite3_close(Conn))
         /\ last' = [op |-> "close", args |-> [db |-> db], fault |-> "none",
                     res |-> NoResult,
                     out |-> [read |-> IF db = NULL THEN "nothing" ELSE "live",
                              freed |-> IF db = NULL THEN "nothing" ELSE "live"],
                     backend |-> db # NULL, pre |-> Pre]
    /\ UNCHANGED <<aborted, malloc0_null, stored>>

\* csqlite_close of a handle that was closed before: the pointer is not NULL,
\* so db->db is read from the freed handle and the handle is freed again.  The
\* behaviour is undefined: the runtime may abort the process or carry on.
CloseClosed ==
    /\ ~aborted
    /\ last = Idle
    /\ handle = "closed"
    /\ aborted' \in BOOLEAN
    /\ last' = [op |-> "close", args |-> [db |-> DB], fault |-> "none",
                res |-> NoResult, out |-> [read |-> "freed", freed |-> "freed"],
                backend |-> TRUE, pre |-> Pre]
    /\ UNCHANGED <<handle, disk, bundles, bundle_metadata, autocommit, foreign_keys,
                   malloc0_null, stored>>

StoreBundle ==
    /\ ~aborted
    /\ last = Idle
    /\ \E call \in StoreCalls :
         LET db == call[1]
             id == call[2]
             data == call[3]
             md == call[4]
             fault == call[5]
             size == IF data = NULL THEN 0 ELSE Len(data.at)
             r == csqlite_store_bundle(Conn, db, id, data, size, md, fault)
         IN /\ DbArg(db)
            /\ (md # NULL /\ md.at.id = NULL) => NullIdRows(bundle_metadata) < MaxOrphans
            /\ Leaves(r.conn)
            /\ Returned("store", [db |-> db, id |-> id, data |-> data, size |-> size,
                                  metadata |-> md], fault, r)
            /\ stored' = IF r.res = CSQLITE_OK
                         THEN [stored EXCEPT ![id.at] = Ptr([data |-> data.at, metadata |-> md.at])]
                         ELSE stored
    /\ UNCHANGED <<handle, aborted, malloc0_null>>

GetBundle ==
    /\ ~aborted
    /\ last = Idle
    /\ \E call \in LookupCalls(GetBundleFaults) :
         LET r == csqlite_get_bundle(Conn, call[1], call[2], call[3] = NULL, call[4],
                                     malloc0_null)
         IN /\ DbArg(call[1])
            /\ Leaves(r.conn)
            /\ Returned("get_bundle", [db |-> call[1], id |-> call[2], out |-> call[3]],
                        call[4], r)
    /\ UNCHANGED <<handle, aborted, malloc0_null, stored>>

GetMetadata ==
    /\ ~aborted
    /\ last = Idle
    /\ \E call \in LookupCalls(GetMetadataFaults) :
         LET r == csqlite_get_metadata(Conn, call[1], call[2], call[3], call[4])
         IN /\ DbArg(call[1])
            /\ Leaves(r.conn)
            /\ Returned("get_metadata", [db |-> call[1], id |-> call[2], out |-> call[3]],
                        call[4], r)
    /\ UNCHANGED <<handle, aborted, malloc0_null, stored>>

UpdateMetadata ==
    /\ ~aborted
    /\ last = Idle
    /\ \E call \in UpdateCalls :
         LET md == call[2]
             r == csqlite_update_metadata(Conn, call[1], md, call[3])
         IN /\ DbArg(call[1])
            /\ Leaves(r.conn)
            /\ Returned("update_metadata", [db |-> call[1], metadata |-> md], call[3], r)
            /\ stored' = IF r.res = CSQLITE_OK /\ stored[md.at.id.at] # NULL
                         THEN [stored EXCEPT ![md.at.id.at].at.metadata = md.at]
                         ELSE stored
    /\ UNCHANGED <<handle, aborted, malloc0_null>>

RemoveBundle ==
    /\ ~aborted
    /\ last = Idle
    /\ \E call \in RemoveCalls :
         LET r == csqlite_remove_bundle(Conn, call[1], call[2], call[3])
         IN /\ DbArg(call[1])
            /\ Leaves(r.conn)
            /\ Returned("remove", [db |-> call[1], id |-> call[2]], call[3], r)
            /\ stored' = IF r.res = CSQLITE_OK
                         THEN [stored EXCEPT ![call[2].at] = NULL]
                         ELSE stored
    /\ UNCHANGED <<handle, aborted, malloc0_null>>

HasBundle ==
    /\ ~aborted
    /\ last = Idle
    /\ \E call \in LookupCalls(StatementFaults) :
         LET r == csqlite_has_bundle(Conn, call[1], call[2], call[3], call[4])
         IN /\ DbArg(call[1])
            /\ Leaves(r.conn)
            /\ Returned("has_bundle", [db |-> call[1], id |-> call[2], out |-> call[3]],
                        call[4], r)
    /\ UNCHANGED <<handle, aborted, malloc0_null, stored>>

CountBundles ==
    /\ ~aborted
    /\ last = Idle
    /\ \E call \in CountCalls :
         LET r == csqlite_count_bundles(Conn, call[1], call[2])
         IN /\ DbArg(call[1])
            /\ Leaves(r.conn)
            /\ Returned("count", [db |-> call[1]], call[2], r)
    /\ UNCHANGED <<handle, aborted, malloc0_null, stored>>

GetAllIds ==
    /\ ~aborted
    /\ last = Idle
    /\ \E call \in ListCalls(IdListFaults) :
         LET r == csqlite_get_all_ids(Conn, call[1], call[2] = NULL, call[3])
         IN /\ DbArg(call[1])
            /\ Leaves(r.conn)
            /\ Returned("get_all_ids", [db |-> call[1], out |-> call[2]], call[3], r)
    /\ UNCHANGED <<handle, aborted, malloc0_null, stored>>

GetAllMetadata ==
    /\ ~aborted
    /\ last = Idle
    /\ \E call \in ListCalls(MetadataListFaults) :
         LET r == csqlite_get_all_metadata(Conn, call[1], call[2] = NULL, call[3])
         IN /\ DbArg(call[1])
            /\ Leaves(r.conn)
            /\ Returned("get_all_metadata", [db |-> call[1], out |-> call[2]], call[3], r)
    /\ UNCHANGED <<handle, aborted, malloc0_null, stored>>

\* The caller has looked at the result and goes on to its next call.
Resume ==
    /\ last # Idle
    /\ last' = Idle
    /\ UNCHANGED <<handle, aborted, disk, bundles, bundle_metadata, autocommit,
                   foreign_keys, malloc0_null, stored>>

Next ==
    \/ Resume
    \/ Open
    \/ CloseOpenOrNull
    \/ CloseClosed
    \/ StoreBundle
    \/ GetBundle
    \/ GetMetadata
    \/ UpdateMetadata
    \/ RemoveBundle
    \/ HasBundle
    \/ CountBundles
    \/ GetAllIds
    \/ GetAllMetadata

Spec == Init /\ [][Next]_vars

(***************************************************************************)
(* What the caller would observe next, with nothing failing.               *)
(***************************************************************************)
PreConn ==
    [bundles |-> last.pre.bundles, bundle_metadata |-> last.pre.bundle_metadata,
     autocommit |-> last.pre.autocommit, foreign_keys |-> foreign_keys,
     changes |-> 0, disk |-> last.pre.disk]

GetBundleNow(i) == csqlite_get_bundle(Conn, DB, Ptr(i), FALSE, "none", malloc0_null)
GetMetadataNow(i) == csqlite_get_metadata(Conn, DB, Ptr(i), OUT, "none")
CountNow == csqlite_count_bundles(Conn, DB, "none").out.at
CountBefore == csqlite_count_bundles(PreConn, DB, "none").out.at

\* The rows of a relation that belong to other ids than i, in table order.
OthersOf(rows, i) == SelectSeq(rows, LAMBDA r : r.id # SqlText(i))

ContentsUnchanged ==
    /\ bundles = last.pre.bundles
    /\ bundle_metadata = last.pre.bundle_metadata

\* The call that returned is `op`, made on the open store with every pointer set
\* and with no engine or allocator failure in it.
CleanCall(op) ==
    /\ last.op = op
    /\ last.args.db # NULL
    /\ last.fault = "none"

(***************************************************************************)
(* C1.  Atomicity of csqlite_store_bundle: whenever it returns a result    *)
(* other than Ok, both relations, as every later operation on the store    *)
(* sees them, hold exactly what they held before the call.                 *)
(***************************************************************************)
C1_StoreAtomic ==
    (last.op = "store" /\ last.res # CSQLITE_OK) => ContentsUnchanged

(***************************************************************************)
(* C2.  1:1 invariant: between calls on an open store, a bundle_metadata   *)
(* row with id i exists if and only if a bundles row with id i exists;     *)
(* there is no bundle without metadata and no metadata row without bundle. *)
(***************************************************************************)
C2_OneToOne ==
    handle = "open" =>
        /\ \A k \in 1..Len(bundles) : HasId(bundle_metadata, bundles[k].id)
        /\ \A k \in 1..Len(bundle_metadata) : HasId(bundles, bundle_metadata[k].id)

(***************************************************************************)
(* C3.  Payload round trip: once storeBundle(i, p, m) returned Ok and i    *)
(* has not been removed, getBundle(i) returns Ok with bytes equal to p and *)
(* size equal to the length of p.                                          *)
(***************************************************************************)
C3_PayloadRoundTrip ==
    (/\ CleanCall("get_bundle")
     /\ last.args.id # NULL
     /\ last.args.out # NULL
     /\ stored[last.args.id.at] # NULL)
    => LET p == stored[last.args.id.at].at.data IN
       /\ last.res = CSQLITE_OK
       /\ last.out.data = Written(Ptr(p))
       /\ last.out.size = Written(Len(p))

(***************************************************************************)
(* C4.  Duplicate store: when i was stored with Ok and not removed, a      *)
(* second storeBundle(i, p2, m2) returns Constraint; afterwards            *)
(* getBundle(i) still returns the first payload, getMetadata(i) the first  *)
(* metadata, and countBundles is unchanged.                                *)
(***************************************************************************)
C4_DuplicateStore ==
    (/\ CleanCall("store")
     /\ ~StoreArgsInvalid(last.args.db, last.args.id, last.args.data, last.args.metadata)
     /\ last.pre.stored[last.args.id.at] # NULL)
    => LET i == last.args.id.at
           first == last.pre.stored[i].at
       IN /\ last.res = CSQLITE_CONSTRAINT
          /\ GetBundleNow(i).res = CSQLITE_OK
          /\ GetBundleNow(i).out.data = Written(Ptr(first.data))
          /\ GetMetadataNow(i).res = CSQLITE_OK
          /\ GetMetadataNow(i).out = Written(first.metadata)
          /\ CountNow = CountBefore

(***************************************************************************)
(* C5.  Cascading removal: for an id i that was stored with Ok,            *)
(* removeBundle(i) returns Ok and removes both rows in the one call, so    *)
(* that getBundle(i) and getMetadata(i) then return NotFound; the rows of  *)
(* every other id are unchanged.                                           *)
(***************************************************************************)
C5_CascadingRemoval ==
    (/\ CleanCall("remove")
     /\ last.args.id # NULL
     /\ last.pre.stored[last.args.id.at] # NULL)
    => LET i == last.args.id.at IN
       /\ last.res = CSQLITE_OK
       /\ GetBundleNow(i).res = CSQLITE_NOT_FOUND
       /\ GetMetadataNow(i).res = CSQLITE_NOT_FOUND
       /\ OthersOf(bundles, i) = OthersOf(last.pre.bundles, i)
       /\ OthersOf(bundle_metadata, i) = OthersOf(last.pre.bundle_metadata, i)

\* A removal with Ok of a bundle that had its metadata row, beside another bundle.
C5_Witness ==
    /\ CleanCall("remove")
    /\ last.args.id # NULL
    /\ last.pre.stored[last.args.id.at] # NULL
    /\ last.res = CSQLITE_OK
    /\ HasId(last.pre.bundle_metadata, SqlText(last.args.id.at))
    /\ Len(bundles) = 1
    /\ Len(bundle_metadata) = 1

(***************************************************************************)
(* C6.  updateMetadata frame: for an id i that has a metadata row,         *)
(* updateMetadata(m) with m.id = i returns Ok and sets source,             *)
(* destination, creationTime, size and constraints of row i to the values  *)
(* of m; the id of the row, the payload of bundle i and every row of every *)
(* other id are unchanged, and getMetadata(i) returns the new values.      *)
(***************************************************************************)
C6_UpdateFrame ==
    (/\ CleanCall("update_metadata")
     /\ last.args.metadata # NULL
     /\ last.args.metadata.at.id # NULL
     /\ last.args.metadata.at.source # NULL
     /\ last.args.metadata.at.destination # NULL
     /\ HasId(last.pre.bundle_metadata, SqlText(last.args.metadata.at.id.at)))
    => LET m == last.args.metadata.at
           i == m.id.at
       IN /\ last.res = CSQLITE_OK
          /\ GetMetadataNow(i).res = CSQLITE_OK
          /\ GetMetadataNow(i).out = Written(m)
          /\ bundles = last.pre.bundles
          /\ Len(bundle_metadata) = Len(last.pre.bundle_metadata)
          /\ OthersOf(bundle_metadata, i) = OthersOf(last.pre.bundle_metadata, i)

\* An update with Ok that changed every mutable field of its row, beside the
\* metadata row of another id.
C6_Witness ==
    /\ CleanCall("update_metadata")
    /\ last.res = CSQLITE_OK
    /\ last.args.metadata.at = MetaB(Ptr("a"))
    /\ RowOf(last.pre.bundle_metadata, SqlText("a")) = MetadataRow(MetaA(Ptr("a")))
    /\ HasId(bundle_metadata, SqlText(""))

(***************************************************************************)
(* C7.  Result taxonomy: storeBundle returns Constraint if and only if the *)
(* payload insert is rejected because a bundle with that id exists, and    *)
(* Error for every other failure, a metadata insert failing after the      *)
(* payload insert included; NotFound comes only from getBundle,            *)
(* getMetadata, updateMetadata and removeBundle, and only when the         *)
(* relation the call addresses has no row with the given id.               *)
(***************************************************************************)
\* The call reached the payload insert and the engine ran it.
PayloadInsertRan ==
    /\ last.op = "store"
    /\ ~StoreArgsInvalid(last.args.db, last.args.id, last.args.data, last.args.metadata)
    /\ last.pre.autocommit
    /\ last.fault \notin {"begin", "prepare_bundle", "step_bundle"}

BadId(p) == p = NULL \/ p.at = ""

InvalidArguments ==
    \/ /\ last.op = "store"
       /\ \/ BadId(last.args.id)
          \/ last.args.data = NULL
          \/ last.args.metadata = NULL
    \/ /\ last.op \in {"get_bundle", "get_metadata", "has_bundle"}
       /\ (BadId(last.args.id) \/ last.args.out = NULL)
    \/ /\ last.op = "update_metadata"
       /\ (last.args.metadata = NULL \/ BadId(last.args.metadata.at.id))
    \/ /\ last.op = "remove"
       /\ BadId(last.args.id)
    \/ /\ last.op \in {"get_all_ids", "get_all_metadata"}
       /\ last.args.out = NULL

C8_InvalidArgumentsRejected ==
    InvalidArguments =>
        /\ last.res = CSQLITE_ERROR
        /\ ~last.backend
        /\ ContentsUnchanged

(***************************************************************************)
(* C9.  Teardown is safe to repeat: close on a null store or on a handle   *)
(* that was closed before is a no-op; it reads no released handle and      *)
(* frees nothing a second time, and the process goes on.                   *)
(***************************************************************************)
C9_CloseRepeatable ==
    (last.op = "close" /\ last.pre.handle # "open") =>
        /\ last.out.read = "nothing"
        /\ last.out.freed = "nothing"
        /\ ~aborted
        /\ handle = last.pre.handle
        /\ disk = last.pre.disk

(***************************************************************************)
(* C10.  Empty payload is a success: after storeBundle(i, p, m) returned   *)
(* Ok with a zero-length p, getBundle(i) returns Ok with size 0, whatever  *)
(* malloc gives for a zero-byte request.                                   *)
(***************************************************************************)
C10_EmptyPayloadOk ==
    (/\ CleanCall("get_bundle")
     /\ last.args.id # NULL
     /\ last.args.out # NULL
     /\ stored[last.args.id.at] # NULL
     /\ stored[last.args.id.at].at.data = <<>>)
    => /\ last.res = CSQLITE_OK
       /\ last.out.size = Written(0)

(***************************************************************************)
(* What a close followed by an open of the same path would leave.          *)
(***************************************************************************)
ReopenNow == csqlite_open(sqlite3_close(Conn), "none").conn

(***************************************************************************)
(* C11.  Durability and idempotent open: after a close and an open of the  *)
(* same path, every id whose storeBundle returned Ok and that was not      *)
(* removed is retrievable, getBundle and getMetadata returning the values  *)
(* stored; the open itself creates, deletes and changes no row of the      *)
(* file; and a bundle whose storeBundle returned a result other than Ok    *)
(* is absent after close and reopen.                                       *)
(***************************************************************************)
C11_DurableReopen ==
    /\ (last.op = "open" /\ last.res = CSQLITE_OK) =>
         /\ \A i \in TextIds :
              stored[i] # NULL =>
                /\ GetBundleNow(i).res = CSQLITE_OK
                /\ GetBundleNow(i).out.data = Written(Ptr(stored[i].at.data))
                /\ GetMetadataNow(i).res = CSQLITE_OK
                /\ GetMetadataNow(i).out = Written(stored[i].at.metadata)
         /\ disk.bundles = last.pre.disk.bundles
         /\ disk.bundle_metadata = last.pre.disk.bundle_metadata
         /\ bundles = disk.bundles
         /\ bundle_metadata = disk.bundle_metadata
    /\ (/\ last.op = "store"
        /\ last.res # CSQLITE_OK
        /\ last.args.id # NULL
        /\ ~HasId(last.pre.disk.bundles, SqlText(last.args.id.at)))
       => /\ ~HasId(ReopenNow.bundles, SqlText(last.args.id.at))
          /\ ~HasId(ReopenNow.bundle_metadata, SqlText(last.args.id.at))

(***************************************************************************)
(* C12.  Listing: listIds returns Ok with the ids of the rows of bundles,  *)
(* each once, and count their number (an empty store gives Ok with count   *)
(* 0); listMetadata returns Ok with exactly one record per id of bundles,  *)
(* each equal to what getMetadata returns for that id.                     *)
(***************************************************************************)
\* The entries a list call handed back: none when the array pointer is NULL.
Listed(out) == IF out.items = Written(NULL) THEN <<>> ELSE out.items.at.at

C12_Listing ==
    /\ (CleanCall("get_all_ids") /\ last.args.out # NULL) =>
         /\ last.res = CSQLITE_OK
         /\ last.out.count = Written(Len(bundles))
         /\ Len(Listed(last.out)) = Len(bundles)
         /\ \A k \in 1..Len(bundles) :
              Cardinality({j \in 1..Len(Listed(last.out)) :
                             Listed(last.out)[j] = Ptr(bundles[k].id.v)}) = 1
    /\ (CleanCall("get_all_metadata") /\ last.args.out # NULL) =>
         /\ last.res = CSQLITE_OK
         /\ last.out.count = Written(Len(bundles))
         /\ Len(Listed(last.out)) = Len(bundles)
         /\ \A k \in 1..Len(bundles) :
              /\ GetMetadataNow(bundles[k].id.v).res = CSQLITE_OK
              /\ Cardinality({j \in 1..Len(Listed(last.out)) :
                                Written(Listed(last.out)[j])
                                  = GetMetadataNow(bundles[k].id.v).out}) = 1

(***************************************************************************)
(* C13.  countBundles tracks the store: it returns the number of rows of   *)
(* bundles; across a call on the open store that number goes up by exactly *)
(* 1 when the call is a storeBundle that returned Ok, down by exactly 1    *)
(* when it is a removeBundle that returned Ok, and is the same for every   *)
(* other call and for every call that returned another result.             *)
(***************************************************************************)
C13_CountTracks ==
    /\ CleanCall("count") => last.out = Written(Len(bundles))
    /\ last.op \notin {"none", "open", "close"} =>
         CountNow = CountBefore
                    + (IF last.op = "store" /\ last.res = CSQLITE_OK THEN 1 ELSE 0)
                    - (IF last.op = "remove" /\ last.res = CSQLITE_OK THEN 1 ELSE 0)

(***************************************************************************)
(* C14.  hasBundle reflects existence: right after a storeBundle(i, ..)    *)
(* that returned Ok, hasBundle(i) returns Ok with exists = true; right     *)
(* after a removeBundle(i) that returned Ok, Ok with exists = false;       *)
(* whenever hasBundle(i) returns Ok, exists is true if and only if bundles *)
(* has a row with id i; and hasBundle never returns NotFound.              *)
(***************************************************************************)
HasBundleNow(i) == csqlite_has_bundle(Conn, DB, Ptr(i), OUT, "none")

C14_HasBundleReflects ==
    /\ (last.op = "store" /\ last.res = CSQLITE_OK) =>
         /\ HasBundleNow(last.args.id.at).res = CSQLITE_OK
         /\ HasBundleNow(last.args.id.at).out = Written(TRUE)
    /\ (last.op = "remove" /\ last.res = CSQLITE_OK) =>
         /\ HasBundleNow(last.args.id.at).res = CSQLITE_OK
         /\ HasBundleNow(last.args.id.at).out = Written(FALSE)
    /\ last.op = "has_bundle" =>
         /\ last.res # CSQLITE_NOT_FOUND
         /\ last.res = CSQLITE_OK =>
              last.out = Written(HasId(bundles, SqlText(last.args.id.at)))

(***************************************************************************)
(* C15.  removeBundle(i) for an id i with no row in bundles returns        *)
(* NotFound and leaves the store unchanged: countBundles returns what it   *)
(* returned before, and every bundles and bundle_metadata row, on the      *)
(* connection and in the file, is as it was.                               *)
(***************************************************************************)
C15_RemoveAbsent ==
    (/\ CleanCall("remove")
     /\ last.args.id # NULL
     /\ ~HasId(last.pre.bundles, SqlText(last.args.id.at)))
    => /\ last.res = CSQLITE_NOT_FOUND
       /\ CountNow = CountBefore
       /\ ContentsUnchanged
       /\ disk = last.pre.disk

\* A removal of an absent id from a store that holds another bundle and its
\* metadata.
C15_Witness ==
    /\ CleanCall("remove")
    /\ last.args.id # NULL
    /\ ~HasId(last.pre.bundles, SqlText(last.args.id.at))
    /\ last.res = CSQLITE_NOT_FOUND
    /\ Len(last.pre.bundles) = 1
    /\ Len(last.pre.bundle_metadata) = 1

(***************************************************************************)
(* C16.  updateMetadata(m) for an m.id with no row in bundle_metadata      *)
(* returns NotFound, the result coming from the affected-row count of the  *)
(* UPDATE; no row is created in either relation and every existing row is  *)
(* unchanged.                                                              *)
(***************************************************************************)
C16_UpdateAbsent ==
    (/\ CleanCall("update_metadata")
     /\ last.args.metadata # NULL
     /\ last.args.metadata.at.id # NULL
     /\ ~HasId(last.pre.bundle_metadata, SqlText(last.args.metadata.at.id.at)))
    => /\ last.res = CSQLITE_NOT_FOUND
       /\ last.res = ChangesResult(
              Len(SelectSeq(last.pre.bundle_metadata,
                            LAMBDA r : SqlEq(r.id, SqlText(last.args.metadata.at.id.at)))))
       /\ ContentsUnchanged
       /\ disk = last.pre.disk

\* An update naming an absent id on a store that holds the metadata row of
\* another bundle.
C16_Witness ==
    /\ CleanCall("update_metadata")
    /\ last.args.metadata # NULL
    /\ last.args.metadata.at.id # NULL
    /\ ~HasId(last.pre.bundle_metadata, SqlText(last.args.metadata.at.id.at))
    /\ last.res = CSQLITE_NOT_FOUND
    /\ Len(last.pre.bundle_metadata) = 1
    /\ last.pre.bundle_metadata[1].id.type = "TEXT"

(***************************************************************************)
(* C17.  Resource scoping: when an operation returns, on every path, the   *)
(* connection is not inside a transaction; so a storeBundle of an id not   *)
(* in bundles, with valid arguments and nothing failing in it, is never    *)
(* turned away at BEGIN by a transaction an earlier call left open.        *)
(***************************************************************************)
C17_NoTransactionLeftOpen ==
    /\ last.op # "none" => autocommit
    /\ (/\ CleanCall("store")
        /\ ~StoreArgsInvalid(last.args.db, last.args.id, last.args.data, last.args.metadata)
        /\ ~HasId(last.pre.bundles, SqlText(last.args.id.at)))
       => ExecBegin(PreConn, "none").rc = "SQLITE_OK"

(***************************************************************************)
(* C18.  Mismatched metadata id: storeBundle(i, p, m) of an id i not in    *)
(* bundles, with m.id different from i (naming no bundle, naming another   *)
(* bundle, or null), returns Error and persists neither the payload row of *)
(* i nor any metadata row; and the store never holds a metadata row whose  *)
(* id is not the id of a bundle.                                           *)
(***************************************************************************)
C18_MismatchedMetadataId ==
    /\ (/\ CleanCall("store")
        /\ ~StoreArgsInvalid(last.args.db, last.args.id, last.args.data, last.args.metadata)
        /\ ~HasId(last.pre.bundles, SqlText(last.args.id.at))
        /\ last.args.metadata.at.id # last.args.id)
       => /\ last.res = CSQLITE_ERROR
          /\ ContentsUnchanged
          /\ disk = last.pre.disk
    /\ handle = "open" =>
         \A k \in 1..Len(bundle_metadata) : HasId(bundles, bundle_metadata[k].id)

(***************************************************************************)
(* C19.  Allocation failure collapses to Error: when an allocation made    *)
(* while copying out the data fails in getBundle, getMetadata, listIds or  *)
(* listMetadata (the blob buffer, the result array, the copy of a string   *)
(* field or of an id), the call returns Error; the call does not return Ok *)
(* having left a null pointer where the failed allocation should be.       *)
(***************************************************************************)
AllocationFaults == {"malloc", "strdup_id", "strdup_source", "strdup_destination"}

\* The call got as far as the allocation that fails in it.
AllocationFailed ==
    /\ last.op \in {"get_bundle", "get_metadata", "get_all_ids", "get_all_metadata"}
    /\ last.fault \in AllocationFaults
    /\ CASE last.op = "get_bundle" -> HasId(bundles, SqlText(last.args.id.at))
         [] last.op = "get_metadata" -> HasId(bundle_metadata, SqlText(last.args.id.at))
         [] last.op = "get_all_ids" -> Len(bundles) > 0
         [] last.op = "get_all_metadata" ->
              /\ Len(bundle_metadata) > 0
              /\ last.fault = "strdup_id" => bundle_metadata[1].id.type = "TEXT"

C19_AllocationFailureIsError ==
    AllocationFailed => last.res = CSQLITE_ERROR

(***************************************************************************)
(* Metadata over the integer ranges.  A second specification: the store    *)
(* is open on a new file, and bundle "a" is stored, updated, read and      *)
(* removed with metadata whose integers are drawn from the ends and the    *)
(* sign boundary of their ranges.                                          *)
(***************************************************************************)
EdgeUInt64 ==
    {0, 1, 2^(BitsInt64 - 1) - 1, 2^(BitsInt64 - 1), 2^(BitsInt64 - 1) + 1, 2^BitsInt64 - 1}

EdgeInt == {0 - 2^(BitsInt - 1), 0 - 1, 0, 1, 2^(BitsInt - 1) - 1}

WideMetas ==
    {[id |-> Ptr("a"), source |-> Ptr("A"), destination |-> Ptr("B"),
      creation_time |-> t, size |-> z, constraints |-> k] :
       t \in EdgeUInt64, z \in EdgeUInt64, k \in EdgeInt}

InitMeta ==
    /\ handle = "open"
    /\ aborted = FALSE
    /\ disk = CreateTables(EmptyDisk)
    /\ bundles = <<>>
    /\ bundle_metadata = <<>>
    /\ autocommit = TRUE
    /\ foreign_keys = PragmaForeignKeys
    /\ malloc0_null \in BOOLEAN
    /\ stored = NoneStored
    /\ last = Idle

StoreWide ==
    /\ last = Idle
    /\ \E m \in WideMetas :
         LET id == Ptr("a")
             data == Ptr(<<1, 2, 3>>)
             r == csqlite_store_bundle(Conn, DB, id, data, Len(data.at), Ptr(m), "none")
         IN /\ Leaves(r.conn)
            /\ Returned("store", [db |-> DB, id |-> id, data |-> data, size |-> Len(data.at),
                                  metadata |-> Ptr(m)], "none", r)
            /\ stored' = IF r.res = CSQLITE_OK
                         THEN [stored EXCEPT ![id.at] = Ptr([data |-> data.at, metadata |-> m])]
                         ELSE stored
    /\ UNCHANGED <<handle, aborted, malloc0_null>>

UpdateWide ==
    /\ last = Idle
    /\ \E m \in WideMetas :
         LET r == csqlite_update_metadata(Conn, DB, Ptr(m), "none")
         IN /\ Leaves(r.conn)
            /\ Returned("update_metadata", [db |-> DB, metadata |-> Ptr(m)], "none", r)
            /\ stored' = IF r.res = CSQLITE_OK /\ stored[m.id.at] # NULL
                         THEN [stored EXCEPT ![m.id.at].at.metadata = m]
                         ELSE stored
    /\ UNCHANGED <<handle, aborted, malloc0_null>>

NextMeta ==
    \/ Resume
    \/ StoreWide
    \/ UpdateWide
    \/ GetMetadata
    \/ RemoveBundle

SpecMeta == InitMeta /\ [][NextMeta]_vars

(***************************************************************************)
(* C20.  Metadata round trip over the integer ranges: for a record m with  *)
(* m.id = i, whatever the unsigned creationTime and size (values with the  *)
(* top bit set included, which the engine holds as negative integers) and  *)
(* whatever the signed constraints, a storeBundle(i, p, m) that returned   *)
(* Ok, or an updateMetadata(m) that returned Ok, is followed by a          *)
(* getMetadata(i) that returns Ok with a record equal to m field by field. *)
(***************************************************************************)
C20_MetadataRoundTrip ==
    /\ (/\ last.op = "store"
        /\ last.res = CSQLITE_OK
        /\ last.args.metadata.at.id = last.args.id)
       => /\ GetMetadataNow(last.args.id.at).res = CSQLITE_OK
          /\ GetMetadataNow(last.args.id.at).out = Written(last.args.metadata.at)
    /\ (last.op = "update_metadata" /\ last.res = CSQLITE_OK)
       => /\ GetMetadataNow(last.args.metadata.at.id.at).res = CSQLITE_OK
          /\ GetMetadataNow(last.args.metadata.at.id.at).out = Written(last.args.metadata.at)
    /\ (/\ CleanCall("get_metadata")
        /\ last.args.id # NULL
        /\ last.args.out # NULL
        /\ stored[last.args.id.at] # NULL)
       => /\ last.res = CSQLITE_OK
          /\ last.out = Written(stored[last.args.id.at].at.metadata)

\* A getMetadata that returned a record an update had written, with creationTime
\* at the top of its range, size at the sign boundary and constraints negative.
C20_Witness ==
    /\ CleanCall("get_metadata")
    /\ last.res = CSQLITE_OK
    /\ last.out.at.creation_time = 2^BitsInt64 - 1
    /\ last.out.at.size = 2^(BitsInt64 - 1)
    /\ last.out.at.constraints = 0 - 2^(BitsInt - 1)
    /\ stored["a"] # NULL
    /\ stored["a"].at.metadata = last.out.at

====
